---------------------------- MODULE Spec2Model ----------------------------
(***************************************************************************)
(* Quantization-aware pipeline of ai8x.py: the device profile, the         *)
(* straight-through numeric primitives, the quantize/clamp factories, the  *)
(* output-shift mechanism, the fused forward pass and the elementwise      *)
(* operators.                                                              *)
(*                                                                         *)
(* Tensor elements are dyadic rationals m * 2^e, kept normalised (m odd,   *)
(* or m = 0 and e = 0), and the arithmetic is exact: the rounding of the   *)
(* float32 representation is not modelled.  A tensor is a sequence of      *)
(* elements.  None is Python's None.                                       *)
(***************************************************************************)
EXTENDS Integers, Sequences, FiniteSets, TLC

None == "None"
\* None where the other values are integers
NoneInt == -1
\* None where the other values are tensors
NoneTensor == <<>>
\* None where the other values are objects
NoneObj == [kind |-> "None"]

(***************************************************************************)
(* Dyadic arithmetic: the tensor operations the code calls.                *)
(***************************************************************************)
RECURSIVE Pow2(_)
Pow2(k) == IF k <= 0 THEN 1 ELSE 2 * Pow2(k - 1)

RECURSIVE Norm(_, _)
Norm(m, e) ==
    IF m = 0 THEN [m |-> 0, e |-> 0]
    ELSE IF m % 2 = 0 THEN Norm(m \div 2, e + 1)
    ELSE [m |-> m, e |-> e]

Dy(m, e) == Norm(m, e)

Zero == Dy(0, 0)
Half == Dy(1, -1)

Min2(a, b) == IF a <= b THEN a ELSE b

\* x.add(y)
DAdd(a, b) ==
    LET e == Min2(a.e, b.e)
    IN  Norm(a.m * Pow2(a.e - e) + b.m * Pow2(b.e - e), e)

\* x.neg()
DNeg(a) == [m |-> -a.m, e |-> a.e]

\* x.mul(y)
DMul(a, b) == Norm(a.m * b.m, a.e + b.e)

\* x.mul(2**k), x.div(2**(-k))
DScale(a, k) == Norm(a.m, a.e + k)

\* position of the leading bit of a positive integer: floor(log2(n))
RECURSIVE FloorLog2(_)
FloorLog2(n) == IF n <= 1 THEN 0 ELSE 1 + FloorLog2(n \div 2)

IntAbs(n) == IF n < 0 THEN -n ELSE n

Sign(a) == IF a.m > 0 THEN 1 ELSE IF a.m < 0 THEN -1 ELSE 0

\* a < b on positive dyadics: by leading-bit position, then by aligned mantissa
PosLess(a, b) ==
    LET pa == a.e + FloorLog2(a.m)
        pb == b.e + FloorLog2(b.m)
        e  == Min2(a.e, b.e)
    IN  IF pa /= pb THEN pa < pb
        ELSE a.m * Pow2(a.e - e) < b.m * Pow2(b.e - e)

DLess(a, b) ==
    IF Sign(a) /= Sign(b) THEN Sign(a) < Sign(b)
    ELSE IF Sign(a) = 0 THEN FALSE
    ELSE IF Sign(a) = 1 THEN PosLess(a, b)
    ELSE PosLess(DNeg(b), DNeg(a))

DLeq(a, b) == ~DLess(b, a)

\* x.abs()
DAbs(a) == [m |-> IntAbs(a.m), e |-> a.e]

\* x.floor()
DFloor(a) == IF a.e >= 0 THEN a ELSE Norm(a.m \div Pow2(-a.e), 0)

\* x.round(): to the nearest integer, a tie to the even one
DRound(a) ==
    IF a.e >= 0 THEN a
    ELSE LET d == Pow2(-a.e)
             q == a.m \div d
             r == a.m - q * d
         IN  IF 2 * r < d THEN Norm(q, 0)
             ELSE IF 2 * r > d THEN Norm(q + 1, 0)
             ELSE IF q % 2 = 0 THEN Norm(q, 0) ELSE Norm(q + 1, 0)

\* x.clamp(min=lo, max=hi)
DClamp(lo, hi, a) == IF DLess(a, lo) THEN lo ELSE IF DLess(hi, a) THEN hi ELSE a

\* integer value of a dyadic that is an integer
DInt(a) == a.m * Pow2(a.e)

IsInt(a) == a.e >= 0

(***************************************************************************)
(* Device profiles.                                                        *)
(***************************************************************************)
Device(device, simulate, round_avg) ==
    [device |-> device, simulate |-> simulate, round_avg |-> round_avg]

Limits(cls, wb, db, ab, fab, fcab, wi, wd, map) ==
    [class |-> cls,
     WEIGHT_BITS |-> wb, DATA_BITS |-> db,
     ACTIVATION_BITS |-> ab, FULL_ACC_BITS |-> fab,
     FC_ACTIVATION_BITS |-> fcab,
     WEIGHT_INPUTS |-> wi, WEIGHT_DEPTH |-> wd,
     MAX_AVG_POOL |-> map]

\* the body of DevAI84.__init__ after its assertion
DevAI84(simulate, round_avg) ==
    Device(84, simulate, round_avg) @@ Limits("DevAI84", 8, 8, 8, 8, 16, 64, 128, 4)

DevAI85(simulate, round_avg) ==
    Device(85, simulate, round_avg) @@ Limits("DevAI85", 8, 8, 8, 30, 16, 256, 768, 16)

\* DevAI87 inherits DevAI85.__init__, which passes 85 to Device.__init__
DevAI87(simulate, round_avg) ==
    [DevAI85(simulate, round_avg) EXCEPT !.class = "DevAI87"]

(***************************************************************************)
(* Straight-through numeric primitives.  d is the profile the global dev   *)
(* holds when the primitive runs.                                          *)
(***************************************************************************)
\* QuantizeSimulate that never divides by 2^(bits-1)
QuantizeSimulate_NoDivide(x, bits) == DFloor(DAdd(x, Half))

\* the simulate branch with floor(x / 2^(bits-1) + 1) for bits > 1
QuantizeSimulate_PlusOne(x, bits) ==
    IF bits > 1 THEN DFloor(DAdd(DScale(x, -(bits - 1)), Dy(1, 0)))
    ELSE IF bits < 1 THEN DFloor(DAdd(DScale(x, 1 - bits), Half))
    ELSE DFloor(DAdd(x, Half))

\* the simulate branch of QuantizationFunction.forward
QuantizeSimulate(x, bits) ==
    IF bits > 1 THEN DFloor(DAdd(DScale(DAdd(x, Half), -(bits - 1)), Half))
    ELSE IF bits < 1 THEN DFloor(DAdd(DScale(x, 1 - bits), Half))
    ELSE DFloor(DAdd(x, Half))

\* the non-simulate branch of QuantizationFunction.forward
\* QuantizeTrain that divides back by twice the factor
QuantizeTrain_DoubleFactor(x, bits) == DScale(DRound(DScale(x, bits - 1)), -bits)

QuantizeTrain(x, bits) == DScale(DRound(DScale(x, bits - 1)), -(bits - 1))

QuantizationFunction(d, x, bits) ==
    IF d.simulate THEN QuantizeSimulate(x, bits) ELSE QuantizeTrain(x, bits)

FloorFunction(x) == DFloor(x)

\* QuantizationFunction.backward(ctx, x): the gradients of (x, bits); g is
\* the incoming gradient tensor
QuantizationFunction_backward(g) == <<g, NoneTensor>>

\* a backward that returns the derivative of floor, zero, in place of g
FloorFunction_backward_Zero(g) == [i \in 1..Len(g) |-> Zero]

\* FloorFunction.backward(ctx, x)
FloorFunction_backward(g) == g

\* RoundFunction.backward(ctx, x)
RoundFunction_backward(g) == g

RoundFunction(x) == DRound(x)

\* the modules: records naming the class and its constructor arguments
Quantize(num_bits) == [kind |-> "Quantize", num_bits |-> num_bits]
Floor == [kind |-> "Floor"]
Round == [kind |-> "Round"]
Empty == [kind |-> "Empty"]
Clamp(min_val, max_val) == [kind |-> "Clamp", min_val |-> min_val, max_val |-> max_val]

\* module.forward(x) on one element
ApplyElem(p, d, x) ==
    CASE p.kind = "Quantize" -> QuantizationFunction(d, x, p.num_bits)
      [] p.kind = "Floor"    -> FloorFunction(x)
      [] p.kind = "Round"    -> RoundFunction(x)
      [] p.kind = "Clamp"    -> DClamp(p.min_val, p.max_val, x)
      [] OTHER               -> x

\* module.forward(x) on a tensor
Apply(p, d, t) == [i \in 1..Len(t) |-> ApplyElem(p, d, t[i])]

(***************************************************************************)
(* Quantize/clamp factories: each reads the profile d that dev holds when  *)
(* it is called.                                                           *)
(***************************************************************************)
SignedMin(bits) == Dy(-Pow2(bits - 1), 0)
SignedMax(bits) == Dy(Pow2(bits - 1) - 1, 0)
\* (2.**(bits-1)-1)/(2.**(bits-1))
FracMax(bits) == Dy(Pow2(bits - 1) - 1, -(bits - 1))

\* quantize_clamp whose wide quantizer uses DATA_BITS instead of DATA_BITS + 1
quantize_clamp_WideDataBits(d, wide, quantize_activation) ==
    IF d.simulate THEN
        [quantize |-> Quantize(d.DATA_BITS),
         clamp |-> IF ~wide
                     THEN Clamp(SignedMin(d.ACTIVATION_BITS), SignedMax(d.ACTIVATION_BITS))
                     ELSE Clamp(SignedMin(d.FULL_ACC_BITS), SignedMax(d.FULL_ACC_BITS))]
    ELSE
        [quantize |->
            IF quantize_activation THEN
                IF ~wide THEN Quantize(d.ACTIVATION_BITS) ELSE Quantize(d.DATA_BITS)
            ELSE Empty,
         clamp |->
            IF ~wide THEN Clamp(Dy(-1, 0), FracMax(d.ACTIVATION_BITS))
            ELSE Clamp(Dy(-1, (d.FULL_ACC_BITS - 2 * (d.DATA_BITS - 1)) - 1),
                       Dy(1, (d.FULL_ACC_BITS - 2 * (d.DATA_BITS - 1)) - 1))]

\* quantize_clamp whose wide continuous clamp is the integer range of
\* FULL_ACC_BITS divided by 2^(FULL_ACC_BITS-1)
quantize_clamp_WideFrac(d, wide, quantize_activation) ==
    IF d.simulate THEN
        IF ~wide THEN
            [quantize |-> Quantize(d.DATA_BITS),
             clamp |-> Clamp(SignedMin(d.ACTIVATION_BITS), SignedMax(d.ACTIVATION_BITS))]
        ELSE
            [quantize |-> Quantize(d.DATA_BITS + 1),
             clamp |-> Clamp(SignedMin(d.FULL_ACC_BITS), SignedMax(d.FULL_ACC_BITS))]
    ELSE
        [quantize |->
            IF quantize_activation THEN
                IF ~wide THEN Quantize(d.ACTIVATION_BITS) ELSE Quantize(d.DATA_BITS + 1)
            ELSE Empty,
         clamp |->
            IF ~wide THEN Clamp(Dy(-1, 0), FracMax(d.ACTIVATION_BITS))
            ELSE Clamp(Dy(-1, 0), FracMax(d.FULL_ACC_BITS))]

quantize_clamp(d, wide, quantize_activation) ==
    IF d.simulate THEN
        IF ~wide THEN
            [quantize |-> Quantize(d.DATA_BITS),
             clamp |-> Clamp(SignedMin(d.ACTIVATION_BITS), SignedMax(d.ACTIVATION_BITS))]
        ELSE
            [quantize |-> Quantize(d.DATA_BITS + 1),
             clamp |-> Clamp(SignedMin(d.FULL_ACC_BITS), SignedMax(d.FULL_ACC_BITS))]
    ELSE
        [quantize |->
            IF quantize_activation THEN
                IF ~wide THEN Quantize(d.ACTIVATION_BITS) ELSE Quantize(d.DATA_BITS + 1)
            ELSE Empty,
         clamp |->
            IF ~wide THEN Clamp(Dy(-1, 0), FracMax(d.ACTIVATION_BITS))
            ELSE Clamp(Dy(-1, (d.FULL_ACC_BITS - 2 * (d.DATA_BITS - 1)) - 1),
                       Dy(1, (d.FULL_ACC_BITS - 2 * (d.DATA_BITS - 1)) - 1))]

\* quantize_clamp_pool that rounds every average in simulate mode
quantize_clamp_pool_AlwaysRound(d, pooling) ==
    IF d.simulate THEN
        IF pooling = "Avg" THEN
            [quantize |-> Round,
             clamp |-> Clamp(SignedMin(d.DATA_BITS), SignedMax(d.DATA_BITS))]
        ELSE [quantize |-> Empty, clamp |-> Empty]
    ELSE
        [quantize |-> Empty,
         clamp |-> IF pooling = "Avg" THEN Clamp(Dy(-1, 0), Dy(127, -7)) ELSE Empty]

\* quantize_clamp_pool that treats max pooling like average pooling
quantize_clamp_pool_MaxLikeAvg(d, pooling) ==
    IF d.simulate THEN
        IF pooling \in {"Avg", "Max"} THEN
            [quantize |-> IF d.round_avg THEN Round ELSE Floor,
             clamp |-> Clamp(SignedMin(d.DATA_BITS), SignedMax(d.DATA_BITS))]
        ELSE [quantize |-> Empty, clamp |-> Empty]
    ELSE
        [quantize |-> Empty,
         clamp |-> IF pooling \in {"Avg", "Max"}
                     THEN Clamp(Dy(-1, 0), Dy(127, -7)) ELSE Empty]

quantize_clamp_pool(d, pooling) ==
    IF d.simulate THEN
        IF pooling = "Avg" THEN
            [quantize |-> IF d.round_avg THEN Round ELSE Floor,
             clamp |-> Clamp(SignedMin(d.DATA_BITS), SignedMax(d.DATA_BITS))]
        ELSE [quantize |-> Empty, clamp |-> Empty]
    ELSE
        [quantize |-> Empty,
         clamp |-> IF pooling = "Avg" THEN Clamp(Dy(-1, 0), Dy(127, -7)) ELSE Empty]

\* quantize_clamp_parameters that quantizes to `bits` in simulate mode too
quantize_clamp_parameters_SimBits(d, bits) ==
    IF d.simulate \/ bits = NoneInt THEN
        [quantize |-> IF bits /= NoneInt THEN Quantize(bits) ELSE Empty,
         clamp |-> Empty]
    ELSE
        [quantize |-> Quantize(bits), clamp |-> Clamp(Dy(-1, 0), FracMax(bits))]

quantize_clamp_parameters(d, bits) ==
    IF d.simulate \/ bits = NoneInt THEN
        [quantize |-> IF bits /= NoneInt THEN Quantize(bits - d.DATA_BITS + 1) ELSE Empty,
         clamp |-> Empty]
    ELSE
        [quantize |-> Quantize(bits), clamp |-> Clamp(Dy(-1, 0), FracMax(bits))]

(***************************************************************************)
(* Output shift and scales.  The stored output_shift is the element of the *)
(* one-element parameter tensor.                                           *)
(***************************************************************************)
RECURSIVE TensorAbsMaxFrom(_, _)
TensorAbsMaxFrom(t, i) ==
    IF i = Len(t) THEN DAbs(t[i])
    ELSE LET rest == TensorAbsMaxFrom(t, i + 1)
         IN  IF DLess(DAbs(t[i]), rest) THEN rest ELSE DAbs(t[i])

\* x.abs().max()
TensorAbsMax(t) == TensorAbsMaxFrom(t, 1)

\* (1./v).log2().ceil() for v > 0: with v = m * 2^e,
\* ceil(-e - log2(m)) = -e - floor(log2(m))
CeilLog2Recip(v) == -v.e - FloorLog2(v.m)

\* the clamp left out
IntClamp_Unclamped(lo, hi, n) == n

\* .clamp(min=lo, max=hi) on an integer-valued tensor
IntClamp(lo, hi, n) == IF n < lo THEN lo ELSE IF n > hi THEN hi ELSE n

\* OutputShift.forward: the unary minus applies to the whole method chain,
\* -((1./max).log2().ceil().clamp(-15, 15)); 1./0 is inf, which clamps to 15
OutputShift(x, prev) ==
    LET v == TensorAbsMax(x)
    IN  IF v.m = 0 THEN -15
        ELSE -IntClamp(-15, 15, CeilLog2Recip(v))

\* OutputShiftSqueeze.forward
OutputShiftSqueeze(x, prev) == prev

\* One.forward
One(x) == Dy(1, 0)

\* WeightScale.forward
WeightScale(x) == Dy(1, -x)

\* OutputScale.forward
OutputScale(x) == Dy(1, x)

\* calc_out_shift that adds the new shift to the stored one
calc_out_shift_Accumulate(m, weight, prev) ==
    IF m.calc_out_shift = "OutputShift" THEN prev + OutputShift(weight, prev)
    ELSE OutputShiftSqueeze(weight, prev)

\* calc_out_shift that returns the stored shift plus one
calc_out_shift_StoredPlusOne(m, weight, prev) == prev + 1

calc_out_shift(m, weight, prev) ==
    IF m.calc_out_shift = "OutputShift" THEN OutputShift(weight, prev)
    ELSE OutputShiftSqueeze(weight, prev)

\* calc_weight_scale fixed at 1 whenever adjustment is disabled
calc_weight_scale_OneWhenDisabled(m, shift) ==
    IF m.adjust_output_shift THEN WeightScale(shift) ELSE One(shift)

calc_weight_scale(m, shift) ==
    IF m.calc_weight_scale = "WeightScale" THEN WeightScale(shift) ELSE One(shift)

\* calc_out_scale one binary place above the shift
calc_out_scale_Doubled(m, shift) == OutputScale(shift + 1)

calc_out_scale(m, shift) == OutputScale(shift)

(***************************************************************************)
(* Activations and the operators of the tensor engine.                     *)
(***************************************************************************)
get_activation(activation) ==
    IF activation = "ReLU" THEN "ReLU"
    ELSE IF activation = "Abs" THEN "Abs"
    ELSE "Empty"

\* ActivateElem whose ReLU lets negative values through
ActivateElem_ReluIdentity(a, x) ==
    CASE a = "Abs"  -> DAbs(x)
      [] OTHER      -> x

ActivateElem(a, x) ==
    CASE a = "ReLU" -> IF DLess(x, Zero) THEN Zero ELSE x
      [] a = "Abs"  -> DAbs(x)
      [] OTHER      -> x

Activate(a, t) == [i \in 1..Len(t) |-> ActivateElem(a, t[i])]

\* out_scale * x
TensorScale(s, t) == [i \in 1..Len(t) |-> DMul(s, t[i])]

\* x.div(k) for a positive integer k: exact for a power of two, and for any
\* other k when the mantissa is a multiple of its odd part
RECURSIVE DDivInt(_, _)
DDivInt(a, k) ==
    IF k % 2 = 0 THEN DDivInt(DScale(a, -1), k \div 2)
    ELSE Norm(a.m \div k, a.e)

\* sum and maximum of the window t[from .. to]
RECURSIVE WindowSum(_, _, _)
WindowSum(t, from, to) ==
    IF from = to THEN t[from] ELSE DAdd(t[from], WindowSum(t, from + 1, to))

RECURSIVE WindowMax(_, _, _)
WindowMax(t, from, to) ==
    IF from = to THEN t[from]
    ELSE LET rest == WindowMax(t, from + 1, to)
         IN  IF DLess(t[from], rest) THEN rest ELSE t[from]

\* nn.AvgPool1d / nn.MaxPool1d(kernel_size, stride, padding=0) on one channel
PoolApply(pool, t) ==
    [i \in 1..((Len(t) - pool.kernel_size) \div pool.stride + 1) |->
        LET from == (i - 1) * pool.stride + 1
            to   == from + pool.kernel_size - 1
        IN  IF pool.kind = "AvgPool1d"
              THEN DDivInt(WindowSum(t, from, to), pool.kernel_size)
              ELSE WindowMax(t, from, to)]

\* the pooling operator of torch raises on a window that is empty or longer
\* than its input
PoolRaises(pool, t) == pool.kernel_size <= 0 \/ Len(t) < pool.kernel_size

\* nn.functional.conv1d with one input channel, kernel size 1, stride 1,
\* padding 0: output channel c at position i is weight[c] * x[i] + bias[c]
Conv1dFunc(t, weight, bias) ==
    [k \in 1..(Len(weight) * Len(t)) |->
        LET c == ((k - 1) \div Len(t)) + 1
            i == ((k - 1) % Len(t)) + 1
            p == DMul(weight[c], t[i])
        IN  IF bias = NoneTensor THEN p ELSE DAdd(p, bias[c])]

\* nn.BatchNorm1d in eval mode with fixed running statistics
BnApply(bn, t) ==
    [i \in 1..Len(t) |-> DMul(DAdd(t[i], DNeg(bn.running_mean)), bn.inv_std)]

(***************************************************************************)
(* Construction.  The pipeline is a Conv1d with one input channel and two   *)
(* output channels, applied to inputs of length 2; a is the record of the  *)
(* remaining constructor arguments.                                        *)
(***************************************************************************)
\* Conv1dAsserts without the assertion that device 84 needs an even pool size
Conv1dAsserts_AnyPoolSize(d, a) ==
    /\ ~a.wide \/ a.activation = None
    /\ IF a.pooling /= None
         THEN /\ a.pool_size <= 16
              /\ d.device /= 84 \/ a.pool_size <= 4 \/ a.pooling = "Max"
              /\ 0 < a.pool_stride /\ a.pool_stride <= 16
              /\ d.device /= 84 \/ a.pool_stride <= 4 \/ a.pooling = "Max"
              /\ a.stride = 1
         ELSE /\ d.device /= 84 \/ a.stride = 3
              /\ d.device = 84 \/ a.stride = 1
    /\ a.batchnorm \in {"Affine", "NoAffine"} => a.bias
    /\ a.kernel_size /= NoneInt =>
         /\ d.device /= 84 \/ a.padding \in {0, 3, 6}
         /\ d.device = 84 \/ a.padding \in {0, 1, 2}
         /\ d.device /= 84 \/ a.kernel_size = 9
         /\ d.device = 84 \/ a.kernel_size \in 1..9
    /\ a.weight_bits \in {NoneInt, 1, 2, 4, 8}
    /\ a.bias_bits \in {NoneInt, 8}
    /\ a.activation = "Abs" => d.device /= 84

\* the assertions of Conv1d.__init__ (and of get_activation, which it reaches)
Conv1dAsserts(d, a) ==
    /\ ~a.wide \/ a.activation = None
    /\ IF a.pooling /= None
         THEN /\ d.device /= 84 \/ a.pool_size % 2 = 0
              /\ a.pool_size <= 16
              /\ d.device /= 84 \/ a.pool_size <= 4 \/ a.pooling = "Max"
              /\ 0 < a.pool_stride /\ a.pool_stride <= 16
              /\ d.device /= 84 \/ a.pool_stride <= 4 \/ a.pooling = "Max"
              /\ a.stride = 1
         ELSE /\ d.device /= 84 \/ a.stride = 3
              /\ d.device = 84 \/ a.stride = 1
    /\ a.batchnorm \in {"Affine", "NoAffine"} => a.bias
    /\ a.kernel_size /= NoneInt =>
         /\ d.device /= 84 \/ a.padding \in {0, 3, 6}
         /\ d.device = 84 \/ a.padding \in {0, 1, 2}
         /\ d.device /= 84 \/ a.kernel_size = 9
         /\ d.device = 84 \/ a.kernel_size \in 1..9
    /\ a.weight_bits \in {NoneInt, 1, 2, 4, 8}
    /\ a.bias_bits \in {NoneInt, 8}
    /\ a.activation = "Abs" => d.device /= 84

\* the assertions of QuantizationAwareModule.__init__ (lines 307-308)
BitsAsserts(a) ==
    /\ a.weight_bits \in {NoneInt, 1, 2, 4, 8}
    /\ a.bias_bits \in {NoneInt, 8}

\* the assertions of Conv2d.__init__ that read no profile, for pooling = None
\* and up to the first read of dev: lines 421, 423, 434/437, and lines
\* 307-308 when the kernel-size assertion at line 446 does not reach dev
Conv2dAssertsBeforeDev(a) ==
    /\ 0 < a.stride /\ a.stride <= 3
    /\ 0 <= a.padding /\ a.padding <= 2
    /\ a.batchnorm \in {"Affine", "NoAffine"} => a.bias
    /\ a.kernel_size \in {NoneInt, 3} => BitsAsserts(a)

\* the assertions of Conv2d.__init__ with op = 'Conv2d' and integer sizes
\* (and of QuantizationAwareModule.__init__ and get_activation)
Conv2dAsserts(d, a) ==
    /\ ~a.wide \/ a.activation = None
    /\ IF a.pooling /= None
         THEN /\ d.device /= 84 \/ a.pool_size % 2 = 0
              /\ a.pool_size <= 16
              /\ d.device /= 84 \/ a.pool_size <= 4 \/ a.pooling = "Max"
              /\ a.pool_stride > 0
              /\ a.pool_stride <= 16
              /\ d.device /= 84 \/ a.pool_stride <= 4 \/ a.pooling = "Max"
              /\ a.stride = 1
         ELSE 0 < a.stride /\ a.stride <= 3
    /\ 0 <= a.padding /\ a.padding <= 2
    /\ a.batchnorm \in {"Affine", "NoAffine"} => a.bias
    /\ a.kernel_size /= NoneInt =>
         a.kernel_size = 3 \/ (d.device /= 84 /\ a.kernel_size = 1)
    /\ BitsAsserts(a)
    /\ a.activation = "Abs" => d.device /= 84

\* QuantizationAwareModule.__init__ after its assertions; w0 and b0 are the
\* initial weight and bias of the operator (b0 = NoneTensor without bias)
QuantizationAwareModule(d, a, w0, b0) ==
    LET adjust == ~d.simulate /\ (a.weight_bits /= NoneInt \/ a.bias_bits /= NoneInt)
        qw == quantize_clamp_parameters(d, IF adjust THEN a.weight_bits ELSE NoneInt)
        qb == quantize_clamp_parameters(d, IF adjust THEN a.bias_bits ELSE NoneInt)
        qp == quantize_clamp_pool(d, a.pooling)
        qc == quantize_clamp(d, a.wide, a.quantize_activation)
    IN  [kind |-> "Conv1d",
         adjust_output_shift |-> adjust,
         output_shift |-> 0,
         qat_weight_bits |-> IF a.weight_bits /= NoneInt THEN a.weight_bits ELSE 8,
         qat_bias_bits |-> IF a.bias_bits /= NoneInt THEN a.bias_bits ELSE 8,
         calc_out_shift |-> IF adjust THEN "OutputShift" ELSE "OutputShiftSqueeze",
         quantize_weight |-> qw.quantize, clamp_weight |-> qw.clamp,
         quantize_bias |-> qb.quantize, clamp_bias |-> qb.clamp,
         calc_weight_scale |-> IF ~d.simulate THEN "WeightScale" ELSE "One",
         calc_out_scale |-> "OutputScale",
         quantize_pool |-> qp.quantize, clamp_pool |-> qp.clamp,
         quantize |-> qc.quantize, clamp |-> qc.clamp,
         activate |-> get_activation(a.activation),
         pool |-> IF a.pooling = "Max"
                    THEN [kind |-> "MaxPool1d", kernel_size |-> a.pool_size,
                          stride |-> a.pool_stride]
                  ELSE IF a.pooling = "Avg"
                    THEN [kind |-> "AvgPool1d", kernel_size |-> a.pool_size,
                          stride |-> a.pool_stride]
                  ELSE NoneObj,
         op |-> IF a.kernel_size /= NoneInt
                  THEN [kind |-> "Conv1d", weight |-> w0,
                        bias |-> IF a.bias THEN b0 ELSE NoneTensor]
                  ELSE NoneObj,
         bn |-> IF a.batchnorm \in {"Affine", "NoAffine"}
                  THEN [kind |-> "BatchNorm1d", running_mean |-> Dy(1, -2),
                        inv_std |-> Dy(1, 1)]
                  ELSE NoneObj]

(***************************************************************************)
(* QuantizationAwareModule.forward.  A stage maps [x, log] to [x, log]:    *)
(* the tensor after the stage, and the modules applied so far in order.    *)
(***************************************************************************)
\* line 339: self.clamp_pool(self.quantize_pool(self.pool(x)))
PoolStage(m, d, st) ==
    [x   |-> Apply(m.clamp_pool, d, Apply(m.quantize_pool, d, PoolApply(m.pool, st.x))),
     log |-> st.log \o <<"pool", "quantize_pool", "clamp_pool">>]

\* line 347: self.clamp_weight(self.quantize_weight(weight_scale * self.op.weight))
WeightStage(m, d, weight_scale) ==
    Apply(m.clamp_weight, d,
          Apply(m.quantize_weight, d, TensorScale(weight_scale, m.op.weight)))

\* lines 348-350
BiasStage(m, d, weight_scale) ==
    IF m.op.bias /= NoneTensor
      THEN Apply(m.clamp_bias, d,
                 Apply(m.quantize_bias, d, TensorScale(weight_scale, m.op.bias)))
      ELSE NoneTensor

\* lines 352-353: self.func(x, weight, bias, ...)
OpStage(m, st, weight, bias) ==
    [x   |-> Conv1dFunc(st.x, weight, bias),
     log |-> st.log \o <<"op">>]

\* lines 354-355
BnStage(m, st) ==
    IF m.bn /= NoneObj
      THEN [x |-> BnApply(m.bn, st.x), log |-> st.log \o <<"bn">>]
      ELSE st

\* OutStage with the clamp applied before the quantizer
OutStage_ClampFirst(m, d, out_scale, st) ==
    [x   |-> Apply(m.quantize, d,
                   Apply(m.clamp, d,
                         Activate(m.activate, TensorScale(out_scale, st.x)))),
     log |-> st.log \o <<"out_scale", "activate", "clamp", "quantize">>]

\* line 356: self.clamp(self.quantize(self.activate(out_scale * x)))
OutStage(m, d, out_scale, st) ==
    [x   |-> Apply(m.clamp, d,
                   Apply(m.quantize, d,
                         Activate(m.activate, TensorScale(out_scale, st.x)))),
     log |-> st.log \o <<"out_scale", "activate", "quantize", "clamp">>]

\* OpBranch with the operator's output multiplied by out_scale before batch-norm
OpBranch_ScaleBeforeBn(m, d, st) ==
    LET out_shift    == calc_out_shift(m, m.op.weight, m.output_shift)
        weight_scale == calc_weight_scale(m, out_shift)
        out_scale    == calc_out_scale(m, out_shift)
        weight       == WeightStage(m, d, weight_scale)
        bias         == BiasStage(m, d, weight_scale)
        s1 == [x |-> st.x,
               log |-> st.log \o <<"calc_out_shift", "weight">>
                              \o (IF m.op.bias /= NoneTensor THEN <<"bias">> ELSE <<>>)]
        s2 == OpStage(m, s1, weight, bias)
        s3 == [x |-> TensorScale(out_scale, s2.x), log |-> s2.log \o <<"out_scale">>]
        s4 == BnStage(m, s3)
        s5 == [x   |-> Apply(m.clamp, d, Apply(m.quantize, d, Activate(m.activate, s4.x))),
               log |-> s4.log \o <<"activate", "quantize", "clamp">>]
    IN  [out |-> s5.x, log |-> s5.log, has_op |-> TRUE,
         out_shift |-> out_shift, weight_scale |-> weight_scale,
         out_scale |-> out_scale, weight |-> weight, bias |-> bias,
         output_shift |-> out_shift]

\* lines 340-356: the part of forward under `if self.op is not None`
OpBranch(m, d, st) ==
    LET out_shift    == calc_out_shift(m, m.op.weight, m.output_shift)
        weight_scale == calc_weight_scale(m, out_shift)
        out_scale    == calc_out_scale(m, out_shift)
        weight       == WeightStage(m, d, weight_scale)
        bias         == BiasStage(m, d, weight_scale)
        s1 == [x |-> st.x,
               log |-> st.log \o <<"calc_out_shift", "weight">>
                              \o (IF m.op.bias /= NoneTensor THEN <<"bias">> ELSE <<>>)]
        s2 == OpStage(m, s1, weight, bias)
        s3 == BnStage(m, s2)
        s4 == OutStage(m, d, out_scale, s3)
    IN  [out |-> s4.x, log |-> s4.log, has_op |-> TRUE,
         out_shift |-> out_shift, weight_scale |-> weight_scale,
         out_scale |-> out_scale, weight |-> weight, bias |-> bias,
         output_shift |-> out_shift]

\* forward(x) under the profile d that dev holds during the call: the
\* returned tensor, the locals of the call and the output_shift it stores
forward(m, d, x) ==
    LET s0 == [x |-> x, log |-> <<>>]
        s1 == IF m.pool /= NoneObj THEN PoolStage(m, d, s0) ELSE s0
    IN  IF m.op /= NoneObj THEN OpBranch(m, d, s1)
        ELSE [out |-> s1.x, log |-> s1.log, has_op |-> FALSE,
              out_shift |-> 0, weight_scale |-> Dy(1, 0),
              out_scale |-> Dy(1, 0), weight |-> NoneTensor, bias |-> NoneTensor,
              output_shift |-> m.output_shift]

(***************************************************************************)
(* State.                                                                  *)
(*   dev     the module-level global `dev`: the active profile, or None    *)
(*   mod     the pipeline instance, or None before it is constructed       *)
(*   last    the last call: its kind, its arguments and, for a forward or  *)
(*           a factory call, its result and its locals; None after an      *)
(*           operation that takes no argument of interest                  *)
(*   raised  the exception the last operation raised, or None              *)
(*   hist    history: the profile and the arguments the pipeline was       *)
(*           constructed with, and whether enable_output_shift has run     *)
(*   calls   the forward calls that threads have in flight on the pipeline *)
(*           instance: each one's position and locals; empty where calls   *)
(*           run one at a time                                             *)
(***************************************************************************)
VARIABLES dev, mod, last, raised, hist, calls

vars == <<dev, mod, last, raised, hist, calls>>

NoCalls == <<>>

\* bounds of the inputs
MaxIn == 1
MaxWExp == 0
MaxLoadShift == 1

\* input tensors: one element of the continuous range, one of the integer range
XTensor(i) == <<Dy(6 * i - 3, -3), Dy(8192 - 16384 * i, 0)>>
XTensors == {XTensor(i) : i \in 0..MaxIn}

\* weight tensors of the operator: magnitudes from 1/4 up to 3 * 2^MaxWExp
WTensors == {<<Dy(3, e1), Dy(-1, e2)>> : e1 \in (-2)..MaxWExp, e2 \in {-2, 0}}

\* the bias tensor of the operator
BTensor == <<Dy(1, -3), Dy(-1, -2)>>

DeviceIds == {85}
RoundAvgs == {FALSE}

ConstructorArgs ==
    [kernel_size : {NoneInt, 1}, pooling : {None, "Avg"}, pool_size : {2},
     pool_stride : {2}, stride : {1}, padding : {0}, bias : BOOLEAN,
     activation : {None, "ReLU"}, wide : {FALSE}, batchnorm : {None, "NoAffine"},
     weight_bits : {NoneInt, 8}, bias_bits : {NoneInt, 8},
     quantize_activation : {FALSE}]

Init ==
    /\ calls = NoCalls
    /\ dev = NoneObj
    /\ mod = NoneObj
    /\ last = NoneObj
    /\ raised = None
    /\ hist = NoneObj

\* set_device with a DevAI84 constructor that does not assert on round_avg
set_device_NoAssert(device, simulate, round_avg) ==
    /\ UNCHANGED calls
    /\ IF device = 84 THEN
           raised' = None /\ dev' = DevAI84(simulate, round_avg)
       ELSE IF device = 85 THEN
           raised' = None /\ dev' = DevAI85(simulate, round_avg)
       ELSE IF device = 87 THEN
           raised' = None /\ dev' = DevAI87(simulate, round_avg)
       ELSE raised' = "ValueError" /\ dev' = dev
    /\ last' = [kind |-> "set_device", device |-> device,
                simulate |-> simulate, round_avg |-> round_avg]
    /\ UNCHANGED <<mod, hist>>

\* set_device that clears the active profile before it builds the new one
set_device_ClearsFirst(device, simulate, round_avg) ==
    /\ UNCHANGED calls
    /\ IF device = 84 THEN
           IF round_avg THEN raised' = "AssertionError" /\ dev' = NoneObj
           ELSE raised' = None /\ dev' = DevAI84(simulate, round_avg)
       ELSE IF device = 85 THEN
           raised' = None /\ dev' = DevAI85(simulate, round_avg)
       ELSE IF device = 87 THEN
           raised' = None /\ dev' = DevAI87(simulate, round_avg)
       ELSE raised' = "ValueError" /\ dev' = NoneObj
    /\ last' = [kind |-> "set_device", device |-> device,
                simulate |-> simulate, round_avg |-> round_avg]
    /\ UNCHANGED <<mod, hist>>

\* set_device: the profile's constructor raises before `dev` is assigned.
\* The message printed at line 1085 (devices.partnum, a module outside
\* ai8x.py) changes no state.  last records the arguments of the call.
set_device(device, simulate, round_avg) ==
    /\ UNCHANGED calls
    /\ IF device = 84 THEN
           IF round_avg THEN raised' = "AssertionError" /\ dev' = dev
           ELSE raised' = None /\ dev' = DevAI84(simulate, round_avg)
       ELSE IF device = 85 THEN
           raised' = None /\ dev' = DevAI85(simulate, round_avg)
       ELSE IF device = 87 THEN
           raised' = None /\ dev' = DevAI87(simulate, round_avg)
       ELSE raised' = "ValueError" /\ dev' = dev
    /\ last' = [kind |-> "set_device", device |-> device,
                simulate |-> simulate, round_avg |-> round_avg]
    /\ UNCHANGED <<mod, hist>>

\* Conv1d(1, 2, **a): the first assertion does not read dev; after it,
\* reading dev.device raises when dev is None
Construct(a, w0) ==
    /\ UNCHANGED calls
    /\ mod = NoneObj
    /\ IF a.wide /\ a.activation /= None THEN
           raised' = "AssertionError" /\ UNCHANGED <<mod, hist>>
       ELSE IF dev = NoneObj THEN
           raised' = "AttributeError" /\ UNCHANGED <<mod, hist>>
       ELSE IF ~Conv1dAsserts(dev, a) THEN
           raised' = "AssertionError" /\ UNCHANGED <<mod, hist>>
       ELSE
           /\ raised' = None
           /\ mod' = QuantizationAwareModule(dev, a, w0, BTensor)
           /\ hist' = [kind |-> "built", dev |-> dev, args |-> a, enabled |-> FALSE]
    /\ last' = [kind |-> "construct", args |-> a]
    /\ UNCHANGED dev

\* mod(x) for the Conv1d pipeline: self.pool(x) at line 339 raises before
\* anything is assigned
Forward(x) ==
    /\ UNCHANGED calls
    /\ mod /= NoneObj
    /\ mod.kind = "Conv1d"
    /\ IF mod.pool /= NoneObj /\ PoolRaises(mod.pool, x) THEN
           /\ raised' = "RuntimeError"
           /\ last' = [kind |-> "forward", x |-> x]
           /\ mod' = mod
       ELSE
           LET r == forward(mod, dev, x)
           IN  /\ mod' = [mod EXCEPT !.output_shift = r.output_shift]
               /\ last' = [kind |-> "call", x |-> x, prev_shift |-> mod.output_shift] @@ r
               /\ raised' = None
    /\ UNCHANGED <<dev, hist>>

\* an optimizer step or a checkpoint load assigns the operator's weight
UpdateWeight(w) ==
    /\ UNCHANGED calls
    /\ mod /= NoneObj
    /\ mod.op /= NoneObj
    /\ mod.op.weight /= w
    /\ mod' = [mod EXCEPT !.op.weight = w]
    /\ last' = NoneObj
    /\ raised' = None
    /\ UNCHANGED <<dev, hist>>

\* load_state_dict assigns the registered output_shift parameter
LoadOutputShift(s) ==
    /\ UNCHANGED calls
    /\ mod /= NoneObj
    /\ mod.output_shift /= s
    /\ mod' = [mod EXCEPT !.output_shift = s]
    /\ last' = NoneObj
    /\ raised' = None
    /\ UNCHANGED <<dev, hist>>

\* EnabledModule that enables only a module with a constrained bit width
EnabledModule_OnlyConstrained(m, d) ==
    LET qw == quantize_clamp_parameters(d, m.qat_weight_bits)
        qb == quantize_clamp_parameters(d, m.qat_bias_bits)
    IN  IF m.adjust_output_shift
          THEN [m EXCEPT !.quantize_weight = qw.quantize, !.clamp_weight = qw.clamp,
                         !.quantize_bias = qb.quantize, !.clamp_bias = qb.clamp]
          ELSE m

\* EnabledModule that leaves calc_out_shift as the constructor chose it
EnabledModule_KeepCalcOutShift(m, d) ==
    LET qw == quantize_clamp_parameters(d, m.qat_weight_bits)
        qb == quantize_clamp_parameters(d, m.qat_bias_bits)
    IN  [m EXCEPT !.adjust_output_shift = TRUE,
                  !.quantize_weight = qw.quantize, !.clamp_weight = qw.clamp,
                  !.quantize_bias = qb.quantize, !.clamp_bias = qb.clamp]

\* what _enable_output_shift assigns to one Conv1d/Conv2d/Linear under profile d
EnabledModule(m, d) ==
    LET qw == quantize_clamp_parameters(d, m.qat_weight_bits)
        qb == quantize_clamp_parameters(d, m.qat_bias_bits)
    IN  [m EXCEPT !.adjust_output_shift = TRUE,
                  !.calc_out_shift = "OutputShift",
                  !.quantize_weight = qw.quantize, !.clamp_weight = qw.clamp,
                  !.quantize_bias = qb.quantize, !.clamp_bias = qb.clamp]

\* enable_output_shift(model) for a model that holds the pipeline
enable_output_shift ==
    /\ UNCHANGED calls
    /\ mod /= NoneObj
    /\ mod' = EnabledModule(mod, dev)
    /\ hist' = [hist EXCEPT !.enabled = TRUE]
    /\ last' = [kind |-> "enable_output_shift"]
    /\ raised' = None
    /\ UNCHANGED dev

\* getattr(m, name) of nn.Module raises AttributeError for a name the object
\* does not hold
HasAttr(m, name) == name \in DOMAIN m

\* w * (beta / r_std) and (b - r_mean) / r_std * beta + gamma with beta = 1
\* and gamma = 0, written to the `conv2d` attribute
FusedModule(m) ==
    [m EXCEPT !.conv2d.weight = TensorScale(m.bn.inv_std, m.conv2d.weight),
              !.conv2d.bias = [i \in 1..Len(m.conv2d.bias) |->
                                  DMul(DAdd(m.conv2d.bias[i], DNeg(m.bn.running_mean)),
                                       m.bn.inv_std)],
              !.bn = NoneObj]

\* fuse_bn_layers(model) for a model that holds the pipeline: the operator is
\* read from target_attr.conv2d
fuse_bn_layers ==
    /\ UNCHANGED calls
    /\ mod /= NoneObj
    /\ IF mod.bn = NoneObj THEN
           raised' = None /\ mod' = mod
       ELSE IF ~HasAttr(mod, "conv2d") THEN
           raised' = "AttributeError" /\ mod' = mod
       ELSE
           raised' = None /\ mod' = FusedModule(mod)
    /\ last' = [kind |-> "fuse_bn_layers"]
    /\ UNCHANGED <<dev, hist>>

Next ==
    \/ fuse_bn_layers
    \/ \E device \in DeviceIds, simulate \in BOOLEAN, round_avg \in RoundAvgs :
           set_device(device, simulate, round_avg)
    \/ \E a \in ConstructorArgs, w0 \in WTensors : Construct(a, w0)
    \/ \E x \in XTensors : Forward(x)
    \/ \E w \in WTensors : UpdateWeight(w)
    \/ \E s \in (-MaxLoadShift)..MaxLoadShift : LoadOutputShift(s)
    \/ enable_output_shift

Spec == Init /\ [][Next]_vars

(***************************************************************************)
(* Properties of the forward pass.                                         *)
(***************************************************************************)
Called == last /= NoneObj /\ last.kind = "call"

\* the place of stage name s in the log of the last call, 0 if it did not run
StageIndex(s) ==
    IF \E i \in 1..Len(last.log) : last.log[i] = s
      THEN CHOOSE i \in 1..Len(last.log) : last.log[i] = s
      ELSE 0

\* the tensor the pooling part of the last call produced
PooledInput ==
    IF mod.pool /= NoneObj
      THEN Apply(mod.clamp_pool, dev,
                 Apply(mod.quantize_pool, dev, PoolApply(mod.pool, last.x)))
      ELSE last.x

\* the operator applied to the pooled input with the call's weight and bias
OperatorOutput == Conv1dFunc(PooledInput, last.weight, last.bias)

\* C1: forward applies its stages in the fixed order pool, quantize_pool,
\* clamp_pool (if pooling is configured), then, only if a primary operator is
\* configured, output shift, weight and bias, operator, batch-norm (if
\* configured), out_scale, activation, quantize, clamp; without an operator
\* the pooled (or untouched) tensor is returned and none of the later stages runs.
C1_StageOrder ==
    Called =>
        /\ last.log =
              (IF mod.pool /= NoneObj
                 THEN <<"pool", "quantize_pool", "clamp_pool">> ELSE <<>>)
              \o (IF mod.op /= NoneObj
                    THEN <<"calc_out_shift", "weight">>
                         \o (IF mod.op.bias /= NoneTensor THEN <<"bias">> ELSE <<>>)
                         \o <<"op">>
                         \o (IF mod.bn /= NoneObj THEN <<"bn">> ELSE <<>>)
                         \o <<"out_scale", "activate", "quantize", "clamp">>
                    ELSE <<>>)
        /\ mod.op = NoneObj => last.out = PooledInput
        /\ mod.op /= NoneObj =>
              last.out =
                 Apply(mod.clamp, dev,
                    Apply(mod.quantize, dev,
                       Activate(mod.activate,
                          TensorScale(last.out_scale,
                             IF mod.bn /= NoneObj
                               THEN BnApply(mod.bn, OperatorOutput)
                               ELSE OperatorOutput))))

\* a call that ran every stage: pooling, operator with bias, batch-norm
C1_Witness ==
    /\ Called
    /\ mod.pool /= NoneObj /\ mod.op /= NoneObj /\ mod.bn /= NoneObj
    /\ Len(last.log) = 12
    /\ \E i \in 1..Len(last.out) : last.out[i] /= Zero

\* C2 as stated: with batch-norm configured, the operator's output is
\* multiplied by out_scale before batch-norm is applied.
C2_ScaleBeforeBn ==
    (Called /\ last.has_op /\ mod.bn /= NoneObj) =>
        /\ StageIndex("op") < StageIndex("out_scale")
        /\ StageIndex("out_scale") < StageIndex("bn")

\* C2 amended: with batch-norm configured, batch-norm is applied to the
\* operator's output first; its result is then multiplied by out_scale, and
\* that product goes through activation, quantize and clamp.
C2_BnBeforeScale ==
    (Called /\ last.has_op /\ mod.bn /= NoneObj) =>
        /\ StageIndex("op") < StageIndex("bn")
        /\ StageIndex("bn") < StageIndex("out_scale")
        /\ StageIndex("out_scale") < StageIndex("activate")
        /\ StageIndex("activate") < StageIndex("quantize")
        /\ StageIndex("quantize") < StageIndex("clamp")
        /\ last.out =
              Apply(mod.clamp, dev,
                 Apply(mod.quantize, dev,
                    Activate(mod.activate,
                       TensorScale(last.out_scale, BnApply(mod.bn, OperatorOutput)))))

\* a call with batch-norm and a shift other than 0, where scaling before
\* batch-norm would return another tensor
C2_Witness ==
    /\ Called /\ last.has_op /\ mod.bn /= NoneObj
    /\ last.out_shift /= 0
    /\ last.out /=
          Apply(mod.clamp, dev,
             Apply(mod.quantize, dev,
                Activate(mod.activate,
                   BnApply(mod.bn, TensorScale(last.out_scale, OperatorOutput)))))

\* C3 as stated: the result of forward depends only on the profile that was
\* active when the pipeline was constructed; a set_device between construction
\* and forward does not change it.
C3_BuiltProfileOnly ==
    (Called /\ ~hist.enabled) =>
        last.out = forward([mod EXCEPT !.output_shift = last.prev_shift],
                           hist.dev, last.x).out

(***************************************************************************)
(* Properties of the output shift.                                         *)
(***************************************************************************)
Built == mod /= NoneObj

Constrained == hist.args.weight_bits /= NoneInt \/ hist.args.bias_bits /= NoneInt

\* C4 as stated: in every reachable state of a pipeline, adjustment is enabled
\* iff the device is not in simulate mode (taken at construction) and at
\* least one of weight_bits / bias_bits was given as non-null.
C4_EnabledIffConstrained ==
    Built => (mod.adjust_output_shift <=> (~hist.dev.simulate /\ Constrained))

\* C4 amended: adjustment is enabled iff enable_output_shift has been applied
\* to the pipeline, or the device was not in simulate mode when the pipeline
\* was constructed and at least one of weight_bits / bias_bits was non-null.
C4_EnabledIffConstrainedOrSwitched ==
    Built =>
        /\ mod.adjust_output_shift <=>
              (hist.enabled \/ (~hist.dev.simulate /\ Constrained))
        /\ mod.adjust_output_shift <=> (mod.calc_out_shift = "OutputShift")

\* enable_output_shift has enabled a pipeline built without bit widths, and a
\* forward call has run on it
C4_Witness ==
    /\ Called
    /\ hist.enabled /\ ~Constrained
    /\ mod.adjust_output_shift

\* C7: after a forward call on a pipeline with an operator, with adjustment
\* enabled the stored output_shift is the shift of the current weight
\* whatever the earlier output_shift was; with adjustment disabled the stored
\* output_shift is the one from before the call.
C7_ShiftRecomputed ==
    (Called /\ last.has_op) =>
        /\ mod.output_shift = last.out_shift
        /\ IF mod.adjust_output_shift
             THEN \A p \in (-15)..15 : mod.output_shift = OutputShift(mod.op.weight, p)
             ELSE mod.output_shift = last.prev_shift

\* a call with adjustment enabled that replaced a stored shift other than 0
\* by a different one
C7_Witness ==
    /\ Called /\ last.has_op
    /\ mod.adjust_output_shift
    /\ last.prev_shift /= 0
    /\ mod.output_shift /= last.prev_shift

\* C8 as stated: the weight scale is 2^(-shift) and the output scale 2^shift,
\* and with adjustment disabled the weight scale is exactly 1.
C8_ScalesAsStated ==
    (Called /\ last.has_op) =>
        /\ last.weight_scale = Dy(1, -last.out_shift)
        /\ last.out_scale = Dy(1, last.out_shift)
        /\ ~mod.adjust_output_shift => last.weight_scale = Dy(1, 0)

\* C8 amended: the output scale is 2^shift for the shift of the call; the
\* weight scale is 2^(-shift) in a pipeline constructed in non-simulate mode
\* and exactly 1 in a pipeline constructed in simulate mode, whether or not
\* adjustment is enabled; with adjustment disabled the shift of the call is
\* the stored output_shift.
C8_ScalesByBuildMode ==
    (Called /\ last.has_op) =>
        /\ last.out_scale = Dy(1, last.out_shift)
        /\ last.weight_scale =
              (IF hist.dev.simulate THEN Dy(1, 0) ELSE Dy(1, -last.out_shift))
        /\ ~mod.adjust_output_shift => last.out_shift = last.prev_shift

\* adjustment disabled, pipeline constructed in non-simulate mode, stored
\* shift other than 0: the weight is rescaled
C8_Witness ==
    /\ Called /\ last.has_op
    /\ ~mod.adjust_output_shift /\ ~hist.dev.simulate
    /\ last.out_shift /= 0
    /\ last.weight_scale /= Dy(1, 0)
    /\ last.weight /= mod.op.weight

\* C22: with device 85 in simulate mode and round_avg false, a non-wide
\* pipeline with an operator, ReLU activation and weight_bits = None returns
\* only integers in [0, 127].
C22_SimulatedReluOutput ==
    (/\ Called /\ last.has_op
     /\ dev.device = 85 /\ dev.simulate /\ ~dev.round_avg
     /\ hist.dev.device = 85 /\ hist.dev.simulate /\ ~hist.dev.round_avg
     /\ hist.args.activation = "ReLU" /\ ~hist.args.wide
     /\ hist.args.weight_bits = NoneInt) =>
        \A i \in 1..Len(last.out) :
            /\ IsInt(last.out[i])
            /\ DLeq(Zero, last.out[i])
            /\ DLeq(last.out[i], Dy(127, 0))

\* such a call returned both a value cut off at 127 and a negative
\* operator output raised to 0
C22_Witness ==
    /\ Called /\ last.has_op
    /\ dev.device = 85 /\ dev.simulate /\ hist.dev.simulate
    /\ hist.args.activation = "ReLU" /\ ~hist.args.wide
    /\ hist.args.weight_bits = NoneInt
    /\ \E i \in 1..Len(last.out) : last.out[i] = Dy(127, 0)
    /\ \E i \in 1..Len(last.out) :
          last.out[i] = Zero /\ DLess(OperatorOutput[i], Dy(-128, 0))

\* ceil(log2(v)) for v > 0, which is ceil(-log2(1/v))
CeilLog2(v) == IF v.m = 1 THEN v.e ELSE v.e + FloorLog2(v.m) + 1

\* C5 as stated: with adjustment enabled and maximum weight magnitude m > 0,
\* the shift is clamp(ceil(-log2(1/m)), -15, 15), and off the clamp boundaries
\* the rescaled weight has maximum magnitude in [0.5, 1].
C5_ShiftKeepsWeightInRange ==
    (Called /\ last.has_op /\ mod.adjust_output_shift
        /\ TensorAbsMax(mod.op.weight).m > 0) =>
        LET v == TensorAbsMax(mod.op.weight)
            r == DScale(v, -last.out_shift)
        IN  /\ last.out_shift = IntClamp(-15, 15, CeilLog2(v))
            /\ last.out_shift \notin {-15, 15} =>
                  (DLeq(Half, r) /\ DLeq(r, Dy(1, 0)))

(***************************************************************************)
(* The output shift over the whole range of weight magnitudes: a pipeline  *)
(* constructed in non-simulate mode with 8-bit weights, whose weight is    *)
(* replaced between forward calls.                                         *)
(***************************************************************************)
MaxWideExp == 17

WideWTensors ==
    {<<Dy(m, e), Dy(1, -3)>> : m \in {0, 1, 3}, e \in (-MaxWideExp)..MaxWideExp}

ShiftArgs ==
    [kernel_size |-> 1, pooling |-> None, pool_size |-> 2, pool_stride |-> 2,
     stride |-> 1, padding |-> 0, bias |-> TRUE, activation |-> "ReLU",
     wide |-> FALSE, batchnorm |-> None, weight_bits |-> 8, bias_bits |-> NoneInt,
     quantize_activation |-> FALSE]

\* the state after set_device(85, False, False) and Conv1d(1, 2, **ShiftArgs)
InitShift ==
    /\ calls = NoCalls
    /\ dev = DevAI85(FALSE, FALSE)
    /\ mod = QuantizationAwareModule(dev, ShiftArgs, <<Dy(3, -2), Dy(1, -3)>>, BTensor)
    /\ hist = [kind |-> "built", dev |-> dev, args |-> ShiftArgs, enabled |-> FALSE]
    /\ last = NoneObj
    /\ raised = None

\* input tensors small enough for the products with the widest weights
ShiftXTensors == {<<Dy(6 * i - 3, -3), Dy(40 - 80 * i, 0)>> : i \in 0..MaxIn}

NextShift ==
    \/ \E w \in WideWTensors : UpdateWeight(w)
    \/ \E x \in ShiftXTensors : Forward(x)

SpecShift == InitShift /\ [][NextShift]_vars

MaxQ == 3

\* values between 2^-8 and MaxQ * 2^7, both signs, and 0
QValues == {Dy(m, e) : m \in (-MaxQ)..MaxQ, e \in {-8, -1, 0, 5, 6, 7}}

\* the widths the factories construct Quantize with
QBits == {-6, -5, -3, 1, 2, 4, 8, 9}

InitQuantize ==
    /\ calls = NoCalls
    /\ dev = NoneObj
    /\ mod = NoneObj
    /\ last = NoneObj
    /\ raised = None
    /\ hist = NoneObj

\* Quantize(num_bits)(x)
ApplyQuantize(num_bits, x) ==
    /\ UNCHANGED calls
    /\ dev /= NoneObj
    /\ last' = [kind |-> "Quantize", num_bits |-> num_bits, x |-> x,
                out |-> ApplyElem(Quantize(num_bits), dev, x)]
    /\ raised' = None
    /\ UNCHANGED <<dev, mod, hist>>

\* incoming gradients: tensors of one or two elements
Gradients == {<<v>> : v \in QValues} \cup {<<Dy(1, -8), v>> : v \in QValues}

\* autograd calls the backward of the primitive fn with the gradient g
ApplyBackward(fn, g) ==
    /\ UNCHANGED calls
    /\ last' = [kind |-> "backward", fn |-> fn, g |-> g,
                out |-> CASE fn = "Quantize" -> QuantizationFunction_backward(g)
                          [] fn = "Floor"    -> FloorFunction_backward(g)
                          [] fn = "Round"    -> RoundFunction_backward(g)]
    /\ raised' = None
    /\ UNCHANGED <<dev, mod, hist>>

NextQuantize ==
    \/ \E fn \in {"Quantize", "Floor", "Round"}, g \in Gradients : ApplyBackward(fn, g)
    \/ \E device \in DeviceIds, simulate \in BOOLEAN, round_avg \in RoundAvgs :
           set_device(device, simulate, round_avg)
    \/ \E num_bits \in QBits, x \in QValues : ApplyQuantize(num_bits, x)

SpecQuantize == InitQuantize /\ [][NextQuantize]_vars

Quantized == last /= NoneObj /\ last.kind = "Quantize"

\* C9 as stated: in simulate mode, for bits > 1, Quantize(bits) returns
\* floor(x / 2^(bits-1) + 1).
C9_FloorPlusOne ==
    (Quantized /\ dev.simulate /\ last.num_bits > 1) =>
        last.out = DFloor(DAdd(DScale(last.x, -(last.num_bits - 1)), Dy(1, 0)))

\* C9 amended: in simulate mode, for bits > 1, Quantize(bits) returns
\* floor((x + 0.5) / 2^(bits-1) + 0.5): the integer n with
\* n * 2^(bits-1) <= x + 0.5 + 2^(bits-2) < (n + 1) * 2^(bits-1).
C9_FloorOfShiftedHalf ==
    (Quantized /\ dev.simulate /\ last.num_bits > 1) =>
        LET y == DAdd(DAdd(last.x, Half), Dy(1, last.num_bits - 2))
        IN  /\ IsInt(last.out)
            /\ DLeq(DScale(last.out, last.num_bits - 1), y)
            /\ DLess(y, DScale(DAdd(last.out, Dy(1, 0)), last.num_bits - 1))

\* Quantize(8) of 0 in simulate mode is 0, where floor(x / 128 + 1) is 1
C9_Witness ==
    /\ Quantized /\ dev.simulate
    /\ last.num_bits = 8 /\ last.x = Zero
    /\ last.out = Zero

(***************************************************************************)
(* Elementwise operators.  The inputs of forward are tensors of one        *)
(* element; xs is the sequence of those elements.                          *)
(***************************************************************************)
BitOr(p, q) == IF p = 1 \/ q = 1 THEN 1 ELSE 0
BitXor(p, q) == IF p /= q THEN 1 ELSE 0

\* torch.bitwise_or / torch.bitwise_xor on two's complement integers
RECURSIVE Bitwise(_, _, _)
Bitwise(op, a, b) ==
    LET bit == IF op = "or" THEN BitOr(a % 2, b % 2) ELSE BitXor(a % 2, b % 2)
    IN  IF a \in {0, -1} /\ b \in {0, -1} THEN -bit
        ELSE 2 * Bitwise(op, a \div 2, b \div 2) + bit

\* a.add(.5).mul(256.).round().int()
ToByte(a) == DInt(DRound(DScale(DAdd(a, Half), 8)))

\* n.div(256.).sub(.5)
FromByte(n) == DAdd(Dy(n, -8), DNeg(Half))

\* Xor.bitwise_xor: the body calls torch.bitwise_or
bitwise_xor(a, b) == FromByte(Bitwise("or", ToByte(a), ToByte(b)))

\* Or.bitwise_or: the body calls torch.bitwise_xor
bitwise_or(a, b) == FromByte(Bitwise("xor", ToByte(a), ToByte(b)))

\* Sub.sub
sub(a, b) == DAdd(a, DNeg(b))

\* self.f(y, x[i]) for the function the subclass passed to Eltwise.__init__
EltwiseF(f, a, b) ==
    CASE f = "Add" -> DAdd(a, b)
      [] f = "Sub" -> sub(a, b)
      [] f = "Xor" -> bitwise_xor(a, b)
      [] f = "Or"  -> bitwise_or(a, b)

\* Eltwise.__init__ under profile d
Eltwise(d, f) ==
    [kind |-> "Eltwise", f |-> f,
     clamp |-> IF d.simulate
                 THEN Clamp(SignedMin(d.ACTIVATION_BITS), SignedMax(d.ACTIVATION_BITS))
                 ELSE Clamp(Dy(-1, 0), Dy(127, -7))]

\* the loop of Eltwise.forward folding from the right: f(x1, f(x2, ...))
RECURSIVE EltwiseFold_Right(_, _, _, _)
EltwiseFold_Right(f, y, xs, i) ==
    IF i > Len(xs) THEN y
    ELSE EltwiseF(f, y, EltwiseFold_Right(f, xs[i], xs, i + 1))

\* the loop of Eltwise.forward from input i on, with y the value so far
RECURSIVE EltwiseFold(_, _, _, _)
EltwiseFold(f, y, xs, i) ==
    IF i > Len(xs) THEN y
    ELSE EltwiseFold(f, EltwiseF(f, y, xs[i]), xs, i + 1)

\* Eltwise.forward(*x)
EltwiseForward(m, d, xs) == ApplyElem(m.clamp, d, EltwiseFold(m.f, xs[1], xs, 2))

MaxArgs == 3

\* inputs as multiples of 1/256: -5/256, 3/256, 1/2, and 3
EValues == {Dy(n, -8) : n \in {-5, 3, 128, 768}}

EInputs == UNION {[1..n -> EValues] : n \in 1..MaxArgs}

EltwiseOps == {"Add", "Sub", "Xor", "Or"}

InitEltwise ==
    /\ calls = NoCalls
    /\ dev = NoneObj
    /\ mod = NoneObj
    /\ last = NoneObj
    /\ raised = None
    /\ hist = NoneObj

\* Add(), Sub(), Xor() or Or()
ConstructEltwise(f) ==
    /\ UNCHANGED calls
    /\ dev /= NoneObj
    /\ mod' = Eltwise(dev, f)
    /\ hist' = [kind |-> "built", dev |-> dev, args |-> f, enabled |-> FALSE]
    /\ last' = NoneObj
    /\ raised' = None
    /\ UNCHANGED dev

\* mod(*xs)
ForwardEltwise(xs) ==
    /\ UNCHANGED calls
    /\ mod /= NoneObj
    /\ last' = [kind |-> "eltwise", xs |-> xs, out |-> EltwiseForward(mod, dev, xs)]
    /\ raised' = None
    /\ UNCHANGED <<dev, mod, hist>>

NextEltwise ==
    \/ \E device \in DeviceIds, simulate \in BOOLEAN, round_avg \in RoundAvgs :
           set_device(device, simulate, round_avg)
    \/ \E f \in EltwiseOps : ConstructEltwise(f)
    \/ \E xs \in EInputs : ForwardEltwise(xs)

SpecEltwise == InitEltwise /\ [][NextEltwise]_vars

EltwiseCalled == last /= NoneObj /\ last.kind = "eltwise"

\* C10 as stated: on two inputs a, b with A = round(256 a + 128) and
\* B = round(256 b + 128), Xor returns (A XOR B)/256 - 0.5 and Or returns
\* (A OR B)/256 - 0.5, each clamped once.
C10_XorIsXorOrIsOr ==
    (EltwiseCalled /\ Len(last.xs) = 2 /\ mod.f \in {"Xor", "Or"}) =>
        LET A == DInt(DRound(DAdd(DScale(last.xs[1], 8), Dy(128, 0))))
            B == DInt(DRound(DAdd(DScale(last.xs[2], 8), Dy(128, 0))))
            r == Bitwise(IF mod.f = "Xor" THEN "xor" ELSE "or", A, B)
        IN  last.out = DClamp(mod.clamp.min_val, mod.clamp.max_val,
                              DAdd(Dy(r, -8), DNeg(Half)))

\* f(...f(f(x1, x2), x3)..., xn) for the first n inputs
RECURSIVE FoldLeft(_, _, _)
FoldLeft(f, xs, n) ==
    IF n = 1 THEN xs[1] ELSE EltwiseF(f, FoldLeft(f, xs, n - 1), xs[n])

\* C21: an elementwise operator applied to n >= 1 inputs returns
\* clamp(f(...f(f(x1, x2), x3)..., xn)), the clamp applied once to the final
\* result; the clamp is [-2^(ACTIVATION_BITS-1), 2^(ACTIVATION_BITS-1)-1] for
\* an operator built in simulate mode and [-1, 127/128] otherwise.
C21_LeftFoldClampOnce ==
    EltwiseCalled =>
        LET lo == IF hist.dev.simulate
                    THEN Dy(-Pow2(hist.dev.ACTIVATION_BITS - 1), 0) ELSE Dy(-1, 0)
            hi == IF hist.dev.simulate
                    THEN Dy(Pow2(hist.dev.ACTIVATION_BITS - 1) - 1, 0) ELSE Dy(127, -7)
        IN  last.out = DClamp(lo, hi, FoldLeft(mod.f, last.xs, Len(last.xs)))

\* Sub on 3/256, 128/256, -5/256 gave (3 - 128 + 5)/256, not (3 - 128 - 5)/256
C21_Witness ==
    /\ EltwiseCalled /\ mod.f = "Sub"
    /\ last.xs = <<Dy(3, -8), Dy(128, -8), Dy(-5, -8)>>
    /\ last.out = Dy(-120, -8)

\* C11 as stated: for Xor and Or on two inputs both equal to 0.5, each input
\* is converted to the integer 255, the bitwise operation is applied to 255
\* and 255, and the result is rescaled by /256 - 0.5 (and clamped).
C11_HalfIs255 ==
    (EltwiseCalled /\ mod.f \in {"Xor", "Or"} /\ last.xs = <<Half, Half>>) =>
        /\ ToByte(last.xs[1]) = 255
        /\ ToByte(last.xs[2]) = 255
        /\ \E o \in {"or", "xor"} :
              last.out = DClamp(mod.clamp.min_val, mod.clamp.max_val,
                                FromByte(Bitwise(o, 255, 255)))

(***************************************************************************)
(* The device profile and the factories on their own: set_device with      *)
(* every argument combination, and calls of the three factories under the  *)
(* profile that dev holds.                                                 *)
(***************************************************************************)
MaxDeviceId == 88

\* device identifiers around the supported ones
AllDeviceIds == 83..MaxDeviceId

\* the arguments the pipeline constructors pass to the factories
PoolingArgs == {None, "Max", "Avg"}
BitsArgs == {NoneInt, 1, 2, 4, 8}

InitDevice ==
    /\ calls = NoCalls
    /\ dev = NoneObj
    /\ mod = NoneObj
    /\ last = NoneObj
    /\ raised = None
    /\ hist = NoneObj

\* quantize_clamp(wide, quantize_activation); dev.simulate raises on None
CallQuantizeClamp(wide, quantize_activation) ==
    /\ UNCHANGED calls
    /\ IF dev = NoneObj THEN
           raised' = "AttributeError" /\ last' = NoneObj
       ELSE
           /\ raised' = None
           /\ last' = [kind |-> "quantize_clamp", wide |-> wide,
                       quantize_activation |-> quantize_activation,
                       out |-> quantize_clamp(dev, wide, quantize_activation)]
    /\ UNCHANGED <<dev, mod, hist>>

\* quantize_clamp_pool(pooling)
CallQuantizeClampPool(pooling) ==
    /\ UNCHANGED calls
    /\ IF dev = NoneObj THEN
           raised' = "AttributeError" /\ last' = NoneObj
       ELSE
           /\ raised' = None
           /\ last' = [kind |-> "quantize_clamp_pool", pooling |-> pooling,
                       out |-> quantize_clamp_pool(dev, pooling)]
    /\ UNCHANGED <<dev, mod, hist>>

\* quantize_clamp_parameters(bits)
CallQuantizeClampParameters(bits) ==
    /\ UNCHANGED calls
    /\ IF dev = NoneObj THEN
           raised' = "AttributeError" /\ last' = NoneObj
       ELSE
           /\ raised' = None
           /\ last' = [kind |-> "quantize_clamp_parameters", bits |-> bits,
                       out |-> quantize_clamp_parameters(dev, bits)]
    /\ UNCHANGED <<dev, mod, hist>>

\* parameter values: on and off the grids of 1, 2, 4 and 8 bits, inside and
\* outside [-1, 1)
ParamValues == {Dy(n, -8) : n \in {-512, -256, -255, -192, -128, -3, 0, 1, 32, 127, 128, 192, 224, 254, 256, 300}}

\* clamp(quantize(w)) with the pair of quantize_clamp_parameters(bits), as
\* forward applies it to the weight and to the bias
ParameterStage(d, bits, w) ==
    LET p == quantize_clamp_parameters(d, bits)
    IN  ApplyElem(p.clamp, d, ApplyElem(p.quantize, d, w))

\* the pair applied once and applied again to its own result
ApplyParameters(bits, w) ==
    /\ UNCHANGED calls
    /\ dev /= NoneObj
    /\ raised' = None
    /\ last' = [kind |-> "apply_parameters", bits |-> bits, w |-> w,
                once |-> ParameterStage(dev, bits, w),
                twice |-> ParameterStage(dev, bits, ParameterStage(dev, bits, w))]
    /\ UNCHANGED <<dev, mod, hist>>

NextDevice ==
    \/ \E bits \in BitsArgs \ {NoneInt}, w \in ParamValues : ApplyParameters(bits, w)
    \/ \E device \in AllDeviceIds, simulate \in BOOLEAN, round_avg \in BOOLEAN :
           set_device(device, simulate, round_avg)
    \/ \E wide \in BOOLEAN, quantize_activation \in BOOLEAN :
           CallQuantizeClamp(wide, quantize_activation)
    \/ \E pooling \in PoolingArgs : CallQuantizeClampPool(pooling)
    \/ \E bits \in BitsArgs : CallQuantizeClampParameters(bits)

SpecDevice == InitDevice /\ [][NextDevice]_vars

DeviceSet == last /= NoneObj /\ last.kind = "set_device"

\* C12: set_device(device, simulate, round_avg) raises exactly when device is
\* not one of 84, 85, 87, or device is 84 and round_avg is true; every other
\* call succeeds.
C12_SetDeviceFails ==
    DeviceSet =>
        (raised /= None <=>
            \/ last.device \notin {84, 85, 87}
            \/ last.device = 84 /\ last.round_avg)

\* set_device(84, _, True) has raised over a profile set earlier
C12_Witness ==
    /\ DeviceSet /\ last.device = 84 /\ last.round_avg
    /\ raised = "AssertionError"
    /\ dev /= NoneObj

\* C13 as stated: after a successful set_device(d, s, r) the active profile
\* has device identifier d, simulate flag s, round-average flag r and the
\* limits of device d, those of 87 being those of 85.
C13_ProfileReplaced ==
    (DeviceSet /\ raised = None) =>
        /\ dev.device = last.device
        /\ dev.simulate = last.simulate
        /\ dev.round_avg = last.round_avg
        /\ LET l == IF last.device = 84
                      THEN Limits(dev.class, 8, 8, 8, 8, 16, 64, 128, 4)
                      ELSE Limits(dev.class, 8, 8, 8, 30, 16, 256, 768, 16)
           IN  \A f \in DOMAIN l : dev[f] = l[f]

FactoryCalled(k) == last /= NoneObj /\ last.kind = k

\* the signed integer range of b bits, and the same range divided by 2^(b-1)
IntRange(b) == Clamp(Dy(-Pow2(b - 1), 0), Dy(Pow2(b - 1) - 1, 0))
FracRange(b) == Clamp(Dy(-Pow2(b - 1), -(b - 1)), Dy(Pow2(b - 1) - 1, -(b - 1)))

\* C16: quantize_clamp(wide, quantize_activation) returns, in simulate mode,
\* Quantize(DATA_BITS) with the integer clamp of ACTIVATION_BITS when not
\* wide and Quantize(DATA_BITS+1) with the integer clamp of FULL_ACC_BITS
\* when wide, whatever quantize_activation is; in non-simulate mode the
\* identity quantizer unless quantize_activation is set (then
\* Quantize(ACTIVATION_BITS), or Quantize(DATA_BITS+1) when wide), and when
\* not wide the clamp [-1, (2^(ACTIVATION_BITS-1)-1)/2^(ACTIVATION_BITS-1)].
C16_QuantizeClamp ==
    FactoryCalled("quantize_clamp") =>
        LET o == last.out
        IN  /\ (dev.simulate /\ ~last.wide) =>
                  o = [quantize |-> Quantize(dev.DATA_BITS),
                       clamp |-> IntRange(dev.ACTIVATION_BITS)]
            /\ (dev.simulate /\ last.wide) =>
                  o = [quantize |-> Quantize(dev.DATA_BITS + 1),
                       clamp |-> IntRange(dev.FULL_ACC_BITS)]
            /\ (~dev.simulate /\ ~last.quantize_activation) => o.quantize = Empty
            /\ (~dev.simulate /\ last.quantize_activation /\ ~last.wide) =>
                  o.quantize = Quantize(dev.ACTIVATION_BITS)
            /\ (~dev.simulate /\ last.quantize_activation /\ last.wide) =>
                  o.quantize = Quantize(dev.DATA_BITS + 1)
            /\ (~dev.simulate /\ ~last.wide) =>
                  o.clamp = FracRange(dev.ACTIVATION_BITS)

\* a wide call with quantize_activation in non-simulate mode gave Quantize(9)
C16_Witness ==
    /\ FactoryCalled("quantize_clamp")
    /\ ~dev.simulate /\ last.wide /\ last.quantize_activation
    /\ last.out.quantize = Quantize(9)

\* C17 as stated: every clamp the factories build for a bit width b has the
\* bounds [-2^(b-1), 2^(b-1)-1] in simulate mode and those bounds divided by
\* 2^(b-1) in non-simulate mode, with b = ACTIVATION_BITS for the non-wide
\* activation clamp, FULL_ACC_BITS for the wide one, DATA_BITS for the
\* average-pool clamp and bits for the parameter clamp.
C17_ClampRanges ==
    /\ FactoryCalled("quantize_clamp") =>
          LET b == IF last.wide THEN dev.FULL_ACC_BITS ELSE dev.ACTIVATION_BITS
          IN  last.out.clamp = IF dev.simulate THEN IntRange(b) ELSE FracRange(b)
    /\ (FactoryCalled("quantize_clamp_pool") /\ last.out.clamp /= Empty) =>
          last.out.clamp = IF dev.simulate THEN IntRange(dev.DATA_BITS)
                           ELSE FracRange(dev.DATA_BITS)
    /\ (FactoryCalled("quantize_clamp_parameters") /\ last.out.clamp /= Empty) =>
          last.out.clamp = IF dev.simulate THEN IntRange(last.bits)
                           ELSE FracRange(last.bits)

\* C17 amended: the same, except that the wide activation clamp in
\* non-simulate mode is [-2^k, 2^k] with k = FULL_ACC_BITS - 2*(DATA_BITS-1) - 1,
\* and that the parameter clamp exists only in non-simulate mode.
C17_ClampRangesWideScaled ==
    /\ FactoryCalled("quantize_clamp") =>
          last.out.clamp =
              IF dev.simulate
                THEN IntRange(IF last.wide THEN dev.FULL_ACC_BITS
                              ELSE dev.ACTIVATION_BITS)
              ELSE IF ~last.wide THEN FracRange(dev.ACTIVATION_BITS)
              ELSE LET k == dev.FULL_ACC_BITS - 2 * (dev.DATA_BITS - 1) - 1
                   IN  Clamp(Dy(-1, k), Dy(1, k))
    /\ (FactoryCalled("quantize_clamp_pool") /\ last.out.clamp /= Empty) =>
          last.out.clamp = IF dev.simulate THEN IntRange(dev.DATA_BITS)
                           ELSE FracRange(dev.DATA_BITS)
    /\ FactoryCalled("quantize_clamp_parameters") =>
          last.out.clamp = IF dev.simulate \/ last.bits = NoneInt THEN Empty
                           ELSE FracRange(last.bits)

\* the wide clamp built in non-simulate mode on device 85 is [-2^15, 2^15]
C17_Witness ==
    /\ FactoryCalled("quantize_clamp") /\ ~dev.simulate /\ last.wide
    /\ dev.FULL_ACC_BITS = 30
    /\ last.out.clamp = Clamp(Dy(-1, 15), Dy(1, 15))

\* C18 as stated: on device 84 the post-pool transform for average pooling
\* is Floor, never Round, for both values of the simulate flag.
C18_FloorOn84 ==
    (FactoryCalled("quantize_clamp_pool") /\ dev.device = 84 /\ last.pooling = "Avg") =>
        last.out.quantize = Floor

\* C18 amended: on device 84 the post-pool transform for average pooling is
\* never Round: it is Floor in simulate mode and the identity otherwise.
C18_FloorOn84WhenSimulating ==
    (FactoryCalled("quantize_clamp_pool") /\ dev.device = 84 /\ last.pooling = "Avg") =>
        /\ last.out.quantize /= Round
        /\ last.out.quantize = IF dev.simulate THEN Floor ELSE Empty

\* average pooling on device 84 in simulate mode got Floor
C18_Witness ==
    /\ FactoryCalled("quantize_clamp_pool") /\ dev.device = 84 /\ dev.simulate
    /\ last.pooling = "Avg" /\ last.out.quantize = Floor

\* C19: quantize_clamp_pool returns identity quantize and identity clamp for
\* 'Max' and None pooling in both modes; for 'Avg' in simulate mode Round when
\* round_avg is set and Floor otherwise, with the integer clamp of DATA_BITS;
\* for 'Avg' in non-simulate mode the clamp
\* [-1, (2^(DATA_BITS-1)-1)/2^(DATA_BITS-1)].
C19_QuantizeClampPool ==
    FactoryCalled("quantize_clamp_pool") =>
        LET o == last.out
        IN  /\ last.pooling \in {"Max", None} =>
                  o = [quantize |-> Empty, clamp |-> Empty]
            /\ (last.pooling = "Avg" /\ dev.simulate) =>
                  o = [quantize |-> IF dev.round_avg THEN Round ELSE Floor,
                       clamp |-> IntRange(dev.DATA_BITS)]
            /\ (last.pooling = "Avg" /\ ~dev.simulate) =>
                  o.clamp = FracRange(dev.DATA_BITS)

\* average pooling in simulate mode with round_avg set got Round
C19_Witness ==
    /\ FactoryCalled("quantize_clamp_pool") /\ dev.simulate /\ dev.round_avg
    /\ last.pooling = "Avg" /\ last.out.quantize = Round

\* C20: quantize_clamp_parameters(bits) returns identity quantize and
\* identity clamp when bits is None; in simulate mode with bits given,
\* identity clamp and Quantize(bits - DATA_BITS + 1); in non-simulate mode
\* with bits given, Quantize(bits) and the clamp [-1, (2^(bits-1)-1)/2^(bits-1)].
C20_QuantizeClampParameters ==
    FactoryCalled("quantize_clamp_parameters") =>
        LET o == last.out
        IN  /\ last.bits = NoneInt => o = [quantize |-> Empty, clamp |-> Empty]
            /\ (last.bits /= NoneInt /\ dev.simulate) =>
                  o = [quantize |-> Quantize(last.bits - dev.DATA_BITS + 1),
                       clamp |-> Empty]
            /\ (last.bits /= NoneInt /\ ~dev.simulate) =>
                  o = [quantize |-> Quantize(last.bits), clamp |-> FracRange(last.bits)]

\* 4-bit parameters in simulate mode got Quantize(-3) and no clamp
C20_Witness ==
    /\ FactoryCalled("quantize_clamp_parameters") /\ dev.simulate
    /\ last.bits = 4
    /\ last.out = [quantize |-> Quantize(-3), clamp |-> Empty]

(***************************************************************************)
(* Construction on its own: the Conv1d and Conv2d constructors are called  *)
(* with legal and illegal arguments under every supported profile until    *)
(* one pipeline is built, and the Conv1d pipeline is then run.             *)
(***************************************************************************)
MaxPoolSize == 3

\* the supported identifiers: set_device(87, ...) stores identifier 85
SupportedDeviceIds == {84, 85, 87}

\* the number of arguments of a that are illegal on their own or in the
\* combination the constructors refuse
Deviations(a) ==
    (IF a.kernel_size = 0 THEN 1 ELSE 0)
    + (IF a.wide THEN 1 ELSE 0)
    + (IF ~a.bias THEN 1 ELSE 0)
    + (IF a.weight_bits = 3 THEN 1 ELSE 0)
    + (IF a.bias_bits = 4 THEN 1 ELSE 0)

\* constructor arguments with at most one such deviation; pool sizes 0 and
\* 2..MaxPoolSize where pooling is configured
AllConstructorArgs ==
    {a \in [kernel_size : {NoneInt, 0, 1}, pooling : {None, "Max", "Avg"},
            pool_size : {0} \cup 2..MaxPoolSize, pool_stride : {2},
            stride : {1, 3}, padding : {0}, bias : BOOLEAN,
            activation : {None, "ReLU"}, wide : BOOLEAN,
            batchnorm : {None, "NoAffine"}, weight_bits : {NoneInt, 3},
            bias_bits : {NoneInt, 4}, quantize_activation : {FALSE}] :
        /\ Deviations(a) <= 1
        /\ a.pooling = None => a.pool_size = 2}

\* inputs of length 4 with equal elements, so that every window average is
\* exact: 3/8 and -40
CTensors == {[i \in 1..4 |-> c] : c \in {Dy(3, -3), Dy(-40, 0)}}

\* the initial weight of the operator
CWeight == <<Dy(3, -2), Dy(-1, 0)>>

InitConstruct ==
    /\ calls = NoCalls
    /\ dev = NoneObj
    /\ mod = NoneObj
    /\ last = NoneObj
    /\ raised = None
    /\ hist = NoneObj

\* Conv2d(1, 2, **a): the object QuantizationAwareModule.__init__ fills in,
\* of class Conv2d
ConstructConv2d(a) ==
    /\ UNCHANGED calls
    /\ mod = NoneObj
    /\ IF a.wide /\ a.activation /= None THEN
           raised' = "AssertionError" /\ UNCHANGED <<mod, hist>>
       ELSE IF dev = NoneObj THEN
           /\ raised' = IF a.pooling = None /\ ~Conv2dAssertsBeforeDev(a)
                          THEN "AssertionError" ELSE "AttributeError"
           /\ UNCHANGED <<mod, hist>>
       ELSE IF ~Conv2dAsserts(dev, a) THEN
           raised' = "AssertionError" /\ UNCHANGED <<mod, hist>>
       ELSE
           /\ raised' = None
           /\ mod' = [QuantizationAwareModule(dev, a, CWeight, BTensor)
                        EXCEPT !.kind = "Conv2d"]
           /\ hist' = [kind |-> "built", dev |-> dev, args |-> a, enabled |-> FALSE]
    /\ last' = [kind |-> "construct2d", args |-> a]
    /\ UNCHANGED dev

NextConstruct ==
    \/ \E device \in SupportedDeviceIds, simulate \in BOOLEAN, round_avg \in RoundAvgs :
           set_device(device, simulate, round_avg)
    \/ \E a \in AllConstructorArgs : Construct(a, CWeight)
    \/ \E a \in AllConstructorArgs : ConstructConv2d(a)
    \/ \E x \in CTensors : Forward(x)

SpecConstruct == InitConstruct /\ [][NextConstruct]_vars

Constructed == last /= NoneObj /\ last.kind \in {"construct", "construct2d"}

\* C14: construction fails when pooling is configured with pool size 3 on
\* device 84, when wide is set together with a non-null activation, when
\* batch-norm is requested with bias disabled, when weight_bits is outside
\* {None, 1, 2, 4, 8} and when bias_bits is outside {None, 8}.
C14_ConstructionFails ==
    (Constructed /\ dev /= NoneObj) =>
        LET a == last.args
        IN  (\/ dev.device = 84 /\ a.pooling /= None /\ a.pool_size = 3
             \/ a.wide /\ a.activation /= None
             \/ a.batchnorm \in {"Affine", "NoAffine"} /\ ~a.bias
             \/ a.weight_bits \notin {NoneInt, 1, 2, 4, 8}
             \/ a.bias_bits \notin {NoneInt, 8})
            => (raised /= None /\ mod = NoneObj)

\* a Conv1d with max pooling of size 3, otherwise legal, is refused on 84
C14_Witness ==
    /\ Constructed /\ last.kind = "construct" /\ dev /= NoneObj /\ dev.device = 84
    /\ last.args.pooling = "Max" /\ last.args.pool_size = 3
    /\ last.args.stride = 1 /\ last.args.kernel_size = NoneInt
    /\ ~last.args.wide /\ last.args.batchnorm = None
    /\ last.args.weight_bits = NoneInt /\ last.args.bias_bits = NoneInt
    /\ raised = "AssertionError"

\* the legality constraints on constructor arguments a under profile d
Legal(d, a) ==
    /\ a.kernel_size /= NoneInt => (a.kernel_size > 0 /\ a.padding >= 0)
    /\ a.stride > 0
    /\ a.pooling /= None =>
         /\ 0 < a.pool_size /\ a.pool_size <= 16
         /\ 0 < a.pool_stride /\ a.pool_stride <= 16
    /\ a.weight_bits \in {NoneInt, 1, 2, 4, 8}
    /\ a.bias_bits \in {NoneInt, 8}
    /\ ~a.wide \/ a.activation = None
    /\ a.batchnorm \in {"Affine", "NoAffine"} => a.bias

\* C15 as stated: for every combination of constructor arguments under every
\* profile, either construction fails or all legality constraints hold, and
\* forward of a successfully constructed pipeline never raises.
C15_FailFast ==
    /\ (Constructed /\ dev /= NoneObj) => (raised /= None \/ Legal(dev, last.args))
    /\ (last /= NoneObj /\ last.kind \in {"forward", "call"}) => raised = None

\* C23: outside simulate mode, for bits in {1, 2, 4, 8} and a weight in
\* [-1, 1) that is a multiple of 2^-(bits-1), the (quantize, clamp) pair of
\* quantize_clamp_parameters(bits) applied twice gives what it gives applied
\* once.
ParametersApplied == last /= NoneObj /\ last.kind = "apply_parameters"

OnGrid(w, bits) == IsInt(DScale(w, bits - 1))

C23_ParameterPairIdempotent ==
    (/\ ParametersApplied /\ ~dev.simulate
     /\ DLeq(Dy(-1, 0), last.w) /\ DLess(last.w, Dy(1, 0))
     /\ OnGrid(last.w, last.bits)) =>
        last.twice = last.once

\* 0.75 on the 4-bit grid, and the largest 8-bit value, pass unchanged twice
C23_Witness ==
    /\ ParametersApplied /\ ~dev.simulate
    /\ \/ last.bits = 4 /\ last.w = Dy(3, -2)
       \/ last.bits = 8 /\ last.w = Dy(127, -7)
    /\ last.once = last.w
    /\ last.twice = last.w

\* C24: in simulate mode, for b in {1, 2, 4, 8} and every x, Quantize(b)(x)
\* multiplied by the step 2^(b-1) differs from x by at most one step.
C24_WithinOneStep ==
    (Quantized /\ dev.simulate /\ last.num_bits \in {1, 2, 4, 8}) =>
        LET back == DScale(last.out, last.num_bits - 1)
        IN  DLeq(DAbs(DAdd(back, DNeg(last.x))), Dy(1, last.num_bits - 1))

\* Quantize(8)(192) = 2: 256 is 64 away from 192, half a step
C24_Witness ==
    /\ Quantized /\ dev.simulate
    /\ last.num_bits = 8 /\ last.x = Dy(3, 6)
    /\ last.out = Dy(2, 0)

(***************************************************************************)
(* Two threads call forward on one pipeline instance.  A call is split at  *)
(* its accesses to the instance: line 341 reads self.output_shift, line    *)
(* 345 assigns it, everything else works on locals and on the operator's   *)
(* parameters, which forward never assigns.                                *)
(***************************************************************************)
Threads == {1, 2}

\* a thread that has not called forward yet
Idle == [pc |-> "idle", x |-> NoneTensor, pooled |-> NoneTensor, out_shift |-> 0, overlapped |-> FALSE, ret |-> NoneTensor]

\* pipelines with an operator and no pooling
RaceArgs == {a \in ConstructorArgs : a.kernel_size = 1 /\ a.pooling = None /\ ~a.bias /\ a.batchnorm = None /\ a.bias_bits = NoneInt}

RaceWeights == {w \in WTensors : w[2] = Dy(-1, -2)}

\* a pipeline built under dev, with or without enable_output_shift applied
\* and with an output_shift loaded; no call has started
InitRace ==
    /\ dev \in {DevAI85(simulate, FALSE) : simulate \in BOOLEAN}
    /\ \E a \in RaceArgs, w0 \in RaceWeights, enabled \in BOOLEAN :
       \E s \in (-MaxLoadShift)..MaxLoadShift :
           LET built == QuantizationAwareModule(dev, a, w0, BTensor)
               m     == IF enabled THEN EnabledModule(built, dev) ELSE built
           IN  /\ mod = [m EXCEPT !.output_shift = s]
               /\ hist = [kind |-> "built", dev |-> dev, args |-> a,
                          enabled |-> enabled, output_shift |-> s]
    /\ last = NoneObj
    /\ raised = None
    /\ calls = [t \in Threads |-> Idle]

\* lines 342-356 with the local out_shift of the call
OpRest(m, d, st, out_shift) ==
    LET weight_scale == calc_weight_scale(m, out_shift)
        out_scale    == calc_out_scale(m, out_shift)
        weight       == WeightStage(m, d, weight_scale)
        bias         == BiasStage(m, d, weight_scale)
        s2 == OpStage(m, st, weight, bias)
        s3 == BnStage(m, s2)
    IN  OutStage(m, d, out_scale, s3).x

\* lines 337-339: thread t enters forward(x); the pooled input is a local
BeginForward(t, x) ==
    /\ calls[t].pc = "idle"
    /\ calls' = [calls EXCEPT ![t].pc = "341", ![t].x = x,
                              ![t].pooled = IF mod.pool /= NoneObj
                                              THEN PoolStage(mod, dev, [x |-> x, log |-> <<>>]).x
                                              ELSE x]
    /\ UNCHANGED <<dev, mod, last, raised, hist>>

\* line 341: out_shift is computed from the weight and the stored shift; the
\* call overlaps when the other call has read and not returned yet
ReadShift(t) ==
    /\ calls[t].pc = "341"
    /\ calls' = [calls EXCEPT ![t].pc = "345",
                              ![t].out_shift = calc_out_shift(mod, mod.op.weight, mod.output_shift),
                              ![t].overlapped = \E u \in Threads \ {t} : calls[u].pc \in {"345", "346"}]
    /\ UNCHANGED <<dev, mod, last, raised, hist>>

\* line 345: self.output_shift = nn.Parameter(out_shift.unsqueeze(0), ...)
StoreShift(t) ==
    /\ calls[t].pc = "345"
    /\ mod' = [mod EXCEPT !.output_shift = calls[t].out_shift]
    /\ calls' = [calls EXCEPT ![t].pc = "346"]
    /\ UNCHANGED <<dev, last, raised, hist>>

\* lines 346-357: the rest of the call, and its return
ReturnForward(t) ==
    /\ calls[t].pc = "346"
    /\ calls' = [calls EXCEPT ![t].pc = "done",
                              ![t].ret = OpRest(mod, dev, [x |-> calls[t].pooled, log |-> <<>>],
                                                calls[t].out_shift)]
    /\ UNCHANGED <<dev, mod, last, raised, hist>>

NextRace ==
    \/ \E t \in Threads, x \in XTensors : BeginForward(t, x)
    \/ \E t \in Threads : ReadShift(t)
    \/ \E t \in Threads : StoreShift(t)
    \/ \E t \in Threads : ReturnForward(t)

SpecRace == InitRace /\ [][NextRace]_vars

RaceDone == \A t \in Threads : calls[t].pc = "done"

Overlapped == \E t \in Threads : calls[t].overlapped

\* the returned tensors and the stored output_shift when the call of thread
\* `first` runs to its end before the call of the other thread starts
SerialRun(first) ==
    LET m0 == [mod EXCEPT !.output_shift = hist.output_shift]
        r1 == forward(m0, dev, calls[first].x)
        m1 == [m0 EXCEPT !.output_shift = r1.output_shift]
        second == CHOOSE u \in Threads : u /= first
        r2 == forward(m1, dev, calls[second].x)
    IN  [ret |-> [t \in Threads |-> IF t = first THEN r1.out ELSE r2.out],
         output_shift |-> r2.output_shift]

SerialOutcome ==
    \E first \in Threads :
        /\ \A t \in Threads : calls[t].ret = SerialRun(first).ret[t]
        /\ mod.output_shift = SerialRun(first).output_shift

BackwardCalled == last /= NoneObj /\ last.kind = "backward"

C26_StraightThrough ==
    BackwardCalled =>
        IF last.fn = "Quantize"
          THEN Len(last.out) = 2 /\ last.out[1] = last.g /\ last.out[2] = NoneTensor
          ELSE last.out = last.g

\* Floor's backward passed a gradient with a non-zero fractional element
C26_Witness ==
    /\ BackwardCalled /\ last.fn = "Floor"
    /\ last.g = <<Dy(1, -8), Dy(-3, -1)>>
    /\ last.out = <<Dy(1, -8), Dy(-3, -1)>>

\* C27: after enable_output_shift the pipeline has adjust_output_shift set,
\* computes its shift with OutputShift and holds the (quantize, clamp) pairs
\* of quantize_clamp_parameters for its qat bit widths, which are 8 where
\* the module was built with None; enable_output_shift applied again
\* changes nothing.
Enabled == last /= NoneObj /\ last.kind = "enable_output_shift"

QatBits(bits) == IF bits = NoneInt THEN 8 ELSE bits

FuseCalled == last /= NoneObj /\ last.kind = "fuse_bn_layers"

C28_FuseCompletes ==
    (FuseCalled /\ hist.args.batchnorm /= None) =>
        /\ raised = None
        /\ mod.bn = NoneObj

\* C29: in a forward call of a pipeline with an operator, when the pipeline
\* was built in non-simulate mode the weight scale times the output scale of
\* the call is 1; when it was built in simulate mode the weight scale is 1
\* and the output scale is 2^output_shift.
C29_ScalesCancel ==
    (Called /\ last.has_op) =>
        /\ last.out_scale = Dy(1, last.out_shift)
        /\ mod.output_shift = last.out_shift
        /\ IF hist.dev.simulate
             THEN /\ last.weight_scale = Dy(1, 0)
                  /\ last.out_scale = Dy(1, mod.output_shift)
             ELSE DMul(last.weight_scale, last.out_scale) = Dy(1, 0)

\* a call of a pipeline built in non-simulate mode with adjustment enabled:
\* the shift computed from the weights is not 0, and the two scales cancel
C29_Witness ==
    /\ Called /\ last.has_op
    /\ ~hist.dev.simulate /\ mod.adjust_output_shift
    /\ last.out_shift < 0
    /\ last.weight_scale = Dy(1, -last.out_shift)
    /\ last.out_scale = Dy(1, last.out_shift)

\* C30: a set_device call that raises leaves the active profile as it was;
\* a call that succeeds installs the profile built from its arguments, and
\* no other operation assigns it.  Hence after any sequence of calls the
\* active profile is the one of the last successful call, or None.
C30_FailedCallKeepsProfile ==
    [][IF last' /= NoneObj /\ last'.kind = "set_device" /\ raised' = None
         THEN dev' \in {DevAI84(last'.simulate, last'.round_avg),
                        DevAI85(last'.simulate, last'.round_avg),
                        DevAI87(last'.simulate, last'.round_avg)}
         ELSE dev' = dev]_vars

\* set_device with an unknown identifier has raised, and the profile of an
\* earlier set_device(84, True, False) is still active
C30_Witness ==
    /\ DeviceSet /\ last.device \notin {84, 85, 87}
    /\ raised = "ValueError"
    /\ dev = DevAI84(TRUE, FALSE)

=========================================================================
